---- MODULE Spec2Model ----
(***************************************************************************)
(* Model of py-bas-canvas-inspector-automator: the command-line entry      *)
(* point (cmd_worker.main), the process/port locator (helpers.find_proc),  *)
(* the DevTools attachment (Automator.connect / __aenter__ / __aexit__),   *)
(* the site sequence of Automator.grab_canvas and the OCR captcha poller   *)
(* of Automator._grab_canvas_outlook.                                      *)
(*                                                                         *)
(* Python strings whose content the code inspects (command-line arguments, *)
(* OCR text) are sequences of one-character strings, so that strip,        *)
(* startswith, split, int and the `in` test are computed as Python         *)
(* computes them.  Process and exception names are only compared for       *)
(* equality and stay TLA+ strings.                                         *)
(***************************************************************************)
EXTENDS Integers, Sequences, FiniteSets, TLC

VARIABLES
    pc,                           \* position of main / grab_canvas
    procTable,                    \* the OS process table read by psutil.process_iter()
    remote_debugging_port,        \* main's local, then Automator.remote_debugging_port
    error,                        \* the exception propagating out of the current frame
    raisedBy,                     \* the step that raised it
    pw,                           \* the Playwright driver: "unset", "started", "stopped"
    attached,                     \* connect_over_cdp has returned a Browser
    nContexts,                    \* len(browser.contexts) of the attached browser
    nPages,                       \* len(context.pages) of the first context
    ws_endpoint,                  \* Automator.ws_endpoint
    httpRequests,                 \* number of httpx.get calls issued
    endpoint,                     \* the argument of the last _url_to_ws_endpoint call
    httpReply,                    \* what the DevTools endpoint answers to its GET
    gmailCheck,                   \* what the Gmail flow found at its terminal check
    site,                         \* index into SITES of the site grab_canvas is working on
    activeFlow,                   \* the site flow that is running, or "none"
    cleaned,                      \* _clean_up has completed and nothing ran since
    flowsStarted,                 \* the site flows started so far, in order
    screenshots,                  \* the named screenshots saved so far, in order
    capture_results,              \* grab_canvas's list of per-site booleans
    swallowed,                    \* the except-clause of grab_canvas has caught BadProxyIPError
    result,                       \* grab_canvas's return value, "none" until it returns
    pollState,                    \* the captcha poller's state
    captcha_not_detected_checks,  \* the poller's list for the current batch
    batchIter,                    \* passes of the `for _ in range(3)` loop done in this batch
    samples,                      \* every sample classification taken so far (history)
    text,                         \* the last normalized OCR text
    markerBudget                  \* marker-positive samples the page may still produce

vars ==
    <<pc, procTable, remote_debugging_port, error, raisedBy, pw, attached, nContexts,
      nPages, ws_endpoint, httpRequests, endpoint, httpReply, gmailCheck, site,
      activeFlow, cleaned, flowsStarted,
      screenshots, capture_results, swallowed, result, pollState,
      captcha_not_detected_checks, batchIter, samples, text, markerBudget>>

----------------------------------------------------------------------------
(* Bounds of the model *)

\* entries (worker groups and child processes) of a generated process table
MaxEntries == 4

\* marker-positive OCR samples the page produces before the captcha is gone
MaxMarkerSamples == 3

----------------------------------------------------------------------------
(* Python string operations on character sequences *)

IsSpace(c) ==
    c \in {" ", "\n", "\r", "\t"}

RECURSIVE LStrip(_)
LStrip(s) ==
    IF s # <<>> /\ IsSpace(Head(s)) THEN LStrip(Tail(s)) ELSE s

RECURSIVE RStrip(_)
RStrip(s) ==
    IF s # <<>> /\ IsSpace(s[Len(s)]) THEN RStrip(SubSeq(s, 1, Len(s) - 1)) ELSE s

\* str.strip()
Strip(s) ==
    RStrip(LStrip(s))

\* str.startswith(prefix)
StartsWith(s, prefix) ==
    /\ Len(s) >= Len(prefix)
    /\ SubSeq(s, 1, Len(prefix)) = prefix

\* `sub in s` (case-sensitive substring containment)
Contains(sub, s) ==
    \E i \in 0..(Len(s) - Len(sub)) : SubSeq(s, i + 1, i + Len(sub)) = sub

\* str.replace(old, new) for one-character old and new
Replace(s, old, new) ==
    [i \in 1..Len(s) |-> IF s[i] = old THEN new ELSE s[i]]

RECURSIVE SplitFrom(_, _, _, _)
SplitFrom(s, sep, i, cur) ==
    IF i > Len(s) THEN <<cur>>
    ELSE IF s[i] = sep THEN <<cur>> \o SplitFrom(s, sep, i + 1, <<>>)
    ELSE SplitFrom(s, sep, i + 1, Append(cur, s[i]))

\* str.split(sep) for a one-character sep
Split(s, sep) ==
    SplitFrom(s, sep, 1, <<>>)

Digits ==
    <<"0", "1", "2", "3", "4", "5", "6", "7", "8", "9">>

IsDigit(c) ==
    \E d \in 1..10 : Digits[d] = c

DigitValue(c) ==
    (CHOOSE d \in 1..10 : Digits[d] = c) - 1

\* int(s) accepts s: a non-empty run of decimal digits (the arguments of the
\* model carry no sign, underscore or inner whitespace)
IsIntLiteral(s) ==
    /\ s # <<>>
    /\ \A i \in 1..Len(s) : IsDigit(s[i])

RECURSIVE IntValue(_)
IntValue(s) ==
    IF s = <<>> THEN 0
    ELSE 10 * IntValue(SubSeq(s, 1, Len(s) - 1)) + DigitValue(s[Len(s)])

----------------------------------------------------------------------------
(* helpers.py: the process/port locator *)

WORKER_PROC_NAME ==
    "Worker.exe"

BROWSER_PROC_NAME ==
    "worker.exe"

HOST_PROC_NAME ==
    "FastExecuteScript.exe"

CANVAS_INSPECTOR_CMD_PATH ==
    <<"a", "p", "p", "s", "r", "e", "m", "o", "t", "e", "\\", "C", "a", "n", "v", "a", "s", "I", "n", "s", "p", "e", "c", "t", "o", "r", "3">>

PORT_ARG_PREFIX ==
    <<"-", "-", "r", "e", "m", "o", "t", "e", "-", "d", "e", "b", "u", "g", "g", "i", "n", "g", "-", "p", "o", "r", "t", "=">>

\* outcomes of a call: a returned value, a raised exception, or (inside
\* find_proc's loops) falling through to the next iteration
Return(v) ==
    [kind |-> "return", value |-> v, exc |-> "none"]

Raise(e) ==
    [kind |-> "raise", value |-> 0, exc |-> e]

Continue ==
    [kind |-> "continue", value |-> 0, exc |-> "none"]

NoProcess ==
    [pid |-> 0, name |-> "", ppid |-> 0, cmdline |-> <<>>]

\* psutil.Process.parent(): the process whose pid is proc's ppid, or None
Parent(table, proc) ==
    IF \E i \in 1..Len(table) : table[i].pid = proc.ppid
    THEN table[CHOOSE i \in 1..Len(table) : table[i].pid = proc.ppid]
    ELSE NoProcess

\* psutil.Process.children(recursive=False), in process-table order
Children(table, proc) ==
    SelectSeq(table, LAMBDA q : q.ppid = proc.pid)

\* lines 31-34: some argument of the parent's command line contains the path
found_proc(parent_proc) ==
    \E k \in 1..Len(parent_proc.cmdline) :
        Contains(CANVAS_INSPECTOR_CMD_PATH, parent_proc.cmdline[k])

\* lines 49-50 on one stripped argument that starts with the port prefix
ParsePortArg(line) ==
    LET parts == Split(line, "=") IN
    IF Len(parts) # 2 THEN Raise("ValueError")        \* `_, port = ...` unpacks two
    ELSE IF ~IsIntLiteral(parts[2]) THEN Raise("ValueError")   \* int(...)
    ELSE Return(IntValue(parts[2]))

\* lines 43-50: the loop over one child's command line
RECURSIVE ScanCmdLine(_, _)
ScanCmdLine(cmd_line, k) ==
    IF k > Len(cmd_line) THEN Continue
    ELSE LET line == Strip(cmd_line[k]) IN
         IF ~StartsWith(line, PORT_ARG_PREFIX) THEN ScanCmdLine(cmd_line, k + 1)
         ELSE ParsePortArg(line)

\* lines 37-50: the loop over the worker's direct children
RECURSIVE ScanChildren(_, _)
ScanChildren(children, j) ==
    IF j > Len(children) THEN Continue
    ELSE IF children[j].name # BROWSER_PROC_NAME THEN ScanChildren(children, j + 1)
    ELSE LET r == ScanCmdLine(children[j].cmdline, 1) IN
         IF r.kind = "continue" THEN ScanChildren(children, j + 1) ELSE r

\* lines 21-52: the loop over the process table.  found_proc is computed and
\* printed (lines 30-35) but no branch reads it.
RECURSIVE ScanProcs(_, _)
ScanProcs(table, i) ==
    IF i > Len(table) THEN Return(0)
    ELSE LET proc == table[i] IN
         IF proc.name # WORKER_PROC_NAME THEN ScanProcs(table, i + 1)
         ELSE LET parent_proc == Parent(table, proc) IN
              IF parent_proc = NoProcess THEN Raise("AttributeError")  \* None.name()
              ELSE IF parent_proc.name # HOST_PROC_NAME THEN ScanProcs(table, i + 1)
              ELSE LET r == ScanChildren(Children(table, proc), 1) IN
                   IF r.kind = "continue" THEN ScanProcs(table, i + 1) ELSE r

find_proc(table) ==
    ScanProcs(table, 1)

----------------------------------------------------------------------------
(* Process tables handed to find_proc *)

ArgExe ==
    <<"w", "o", "r", "k", "e", "r", ".", "e", "x", "e">>

ArgHostExe ==
    <<"F", "a", "s", "t", "E", "x", "e", "c", "u", "t", "e", "S", "c", "r", "i", "p", "t", ".", "e", "x", "e">>

ArgHostWithMarker ==
    <<"C", ":", "\\", "a", "p", "p", "s", "r", "e", "m", "o", "t", "e", "\\", "C", "a", "n", "v", "a", "s", "I", "n", "s", "p", "e", "c", "t", "o", "r", "3", "\\", "S", "I", "D", "1">>

ArgHostNoMarker ==
    <<"C", ":", "\\", "a", "p", "p", "s", "\\", "O", "t", "h", "e", "r">>

ArgPort9222 ==
    <<"-", "-", "r", "e", "m", "o", "t", "e", "-", "d", "e", "b", "u", "g", "g", "i", "n", "g", "-", "p", "o", "r", "t", "=", "9", "2", "2", "2">>

ArgPort9223Padded ==
    <<" ", "-", "-", "r", "e", "m", "o", "t", "e", "-", "d", "e", "b", "u", "g", "g", "i", "n", "g", "-", "p", "o", "r", "t", "=", "9", "2", "2", "3", " ">>

ArgPortNonNumeric ==
    <<"-", "-", "r", "e", "m", "o", "t", "e", "-", "d", "e", "b", "u", "g", "g", "i", "n", "g", "-", "p", "o", "r", "t", "=", "a", "u", "t", "o">>

ArgPortTwoEquals ==
    <<"-", "-", "r", "e", "m", "o", "t", "e", "-", "d", "e", "b", "u", "g", "g", "i", "n", "g", "-", "p", "o", "r", "t", "=", "9", "2", "=", "2", "2">>

ArgUserDataDir ==
    <<"-", "-", "u", "s", "e", "r", "-", "d", "a", "t", "a", "-", "d", "i", "r", "=", "p", "r", "o", "f">>

\* the parent of a generated Worker.exe: none, the host application started
\* from the Canvas Inspector directory or from elsewhere, or another program
ParentKinds ==
    {"none", "host_marker", "host_plain", "other"}

\* a generated child of the latest Worker.exe: a browser process whose command
\* line carries one of the port arguments or none, or a process of another name
ChildKinds ==
    {"port9222", "port9223", "nonnumeric", "twoequals", "noport", "othername"}

Entries ==
    [worker : ParentKinds] \cup [child : ChildKinds]

IsWorkerEntry(e) ==
    DOMAIN e = {"worker"}

ParentProcess(kind, pid) ==
    [pid |-> pid,
     name |-> IF kind = "other" THEN "explorer.exe" ELSE HOST_PROC_NAME,
     ppid |-> 0,
     cmdline |-> IF kind = "host_marker" THEN <<ArgHostExe, ArgHostWithMarker>>
                 ELSE IF kind = "host_plain" THEN <<ArgHostExe, ArgHostNoMarker>>
                 ELSE <<>>]

WorkerProcess(pid, ppid) ==
    [pid |-> pid, name |-> WORKER_PROC_NAME, ppid |-> ppid, cmdline |-> <<>>]

ChildProcess(kind, pid, ppid) ==
    [pid |-> pid,
     name |-> IF kind = "othername" THEN "crashpad.exe" ELSE BROWSER_PROC_NAME,
     ppid |-> ppid,
     cmdline |-> CASE kind = "port9222" -> <<ArgExe, ArgPort9222>>
                   [] kind = "port9223" -> <<ArgExe, ArgUserDataDir, ArgPort9223Padded>>
                   [] kind = "nonnumeric" -> <<ArgExe, ArgPortNonNumeric>>
                   [] kind = "twoequals" -> <<ArgExe, ArgPortTwoEquals>>
                   [] kind = "noport" -> <<ArgExe, ArgUserDataDir>>
                   [] kind = "othername" -> <<ArgExe, ArgPort9222>>]

\* The table in pid order (the order of psutil.process_iter): each worker entry
\* adds its parent, if any, and a Worker.exe; each child entry adds a child of
\* the latest Worker.exe (of no process when there is none yet).
RECURSIVE BuildTable(_, _, _, _)
BuildTable(entries, k, nextPid, workerPid) ==
    IF k > Len(entries) THEN <<>>
    ELSE LET e == entries[k] IN
         IF IsWorkerEntry(e)
         THEN IF e.worker = "none"
              THEN <<WorkerProcess(nextPid, 0)>>
                   \o BuildTable(entries, k + 1, nextPid + 1, nextPid)
              ELSE <<ParentProcess(e.worker, nextPid), WorkerProcess(nextPid + 1, nextPid)>>
                   \o BuildTable(entries, k + 1, nextPid + 2, nextPid + 1)
         ELSE <<ChildProcess(e.child, nextPid, workerPid)>>
              \o BuildTable(entries, k + 1, nextPid + 1, workerPid)

EntrySeqs ==
    UNION {[1..n -> Entries] : n \in 0..MaxEntries}

ProcessTables ==
    {BuildTable(es, 1, 1, 0) : es \in EntrySeqs}

\* the process tables of the whole-program specification: no process at all, a
\* worker started by the host from the Canvas Inspector directory, one started
\* by the host from elsewhere, a worker of another program, a worker whose
\* parent is gone, and a browser child whose port argument is not a number
MainEntrySeqs ==
    { <<>>,
      <<[worker |-> "host_marker"], [child |-> "port9222"]>>,
      <<[worker |-> "host_plain"], [child |-> "port9223"]>>,
      <<[worker |-> "other"], [child |-> "port9222"]>>,
      <<[worker |-> "none"], [child |-> "port9222"]>>,
      <<[worker |-> "host_marker"], [child |-> "nonnumeric"]>> }

MainProcessTables ==
    {BuildTable(es, 1, 1, 0) : es \in MainEntrySeqs}

----------------------------------------------------------------------------
(* automator.py: the DevTools attachment *)

HTTP_LOCALHOST ==
    <<"h", "t", "t", "p", ":", "/", "/", "l", "o", "c", "a", "l", "h", "o", "s", "t", ":">>

WS_SCHEME ==
    <<"w", "s">>

JSON_VERSION_PATH ==
    <<"j", "s", "o", "n", "/", "v", "e", "r", "s", "i", "o", "n", "/">>

WsDebuggerUrl ==
    <<"w", "s", ":", "/", "/", "1", "2", "7", ".", "0", ".", "0", ".", "1", ":", "9", "2", "2", "2", "/", "d", "e", "v", "t", "o", "o", "l", "s", "/", "b", "r", "o", "w", "s", "e", "r", "/", "a", "b", "c">>

RECURSIVE IntToStr(_)
\* f"{n}" for n >= 0
IntToStr(n) ==
    IF n < 10 THEN <<Digits[n + 1]>>
    ELSE IntToStr(n \div 10) \o <<Digits[(n % 10) + 1]>>

\* str.endswith(suffix)
EndsWith(s, suffix) ==
    /\ Len(s) >= Len(suffix)
    /\ SubSeq(s, Len(s) - Len(suffix) + 1, Len(s)) = suffix

\* What the DevTools endpoint does with GET <http_url>: the connection fails,
\* or a response arrives with a status and a body; the body is JSON text or
\* not, and a JSON object carries the field webSocketDebuggerUrl or not.
\* The field's value is `url`.
HttpReplies ==
    {[kind |-> "ConnectError", status |-> 0, json |-> FALSE, hasUrl |-> FALSE, url |-> <<>>]}
    \cup [kind : {"response"}, status : {200, 500}, json : BOOLEAN, hasUrl : BOOLEAN,
          url : {WsDebuggerUrl}]

\* no GET has been answered yet
NoReply ==
    [kind |-> "none", status |-> 0, json |-> FALSE, hasUrl |-> FALSE, url |-> <<>>]

\* Port 0 is find_proc's "not found": no DevTools server listens on it, so the
\* GET to http://localhost:0/ does not bring back the browser's JSON answer.
HttpRepliesFor(port) ==
    IF port = 0
    THEN {r \in HttpReplies : ~(r.kind = "response" /\ r.status = 200 /\ r.json /\ r.hasUrl)}
    ELSE HttpReplies

\* lines 51-52
HttpUrl(endpoint_url) ==
    (IF EndsWith(endpoint_url, <<"/">>) THEN endpoint_url ELSE endpoint_url \o <<"/">>)
    \o JSON_VERSION_PATH

\* lines 46-69 without the test of line 46: the GET is always issued
UrlToWsEndpointAlwaysGet(endpoint_url, reply) ==
    IF reply.kind = "ConnectError"
    THEN [kind |-> "raise", value |-> <<>>,
          exc |-> "BrowserWebSocketConnectionError", requests |-> 1]
    ELSE IF reply.status # 200
    THEN [kind |-> "raise", value |-> <<>>, exc |-> "ValueError", requests |-> 1]
    ELSE IF ~reply.json
    THEN [kind |-> "raise", value |-> <<>>, exc |-> "JSONDecodeError", requests |-> 1]
    ELSE IF ~reply.hasUrl
    THEN [kind |-> "raise", value |-> <<>>, exc |-> "KeyError", requests |-> 1]
    ELSE [kind |-> "return", value |-> reply.url, exc |-> "none", requests |-> 1]

\* lines 46-69 with the ConnectError handler returning the URL it was given
\* instead of raising
UrlToWsEndpointNoRaise(endpoint_url, reply) ==
    IF StartsWith(endpoint_url, WS_SCHEME) \/ reply.kind = "ConnectError"
    THEN [kind |-> "return", value |-> endpoint_url, exc |-> "none",
          requests |-> IF StartsWith(endpoint_url, WS_SCHEME) THEN 0 ELSE 1]
    ELSE IF reply.status # 200
    THEN [kind |-> "raise", value |-> <<>>, exc |-> "ValueError", requests |-> 1]
    ELSE IF ~reply.json
    THEN [kind |-> "raise", value |-> <<>>, exc |-> "JSONDecodeError", requests |-> 1]
    ELSE IF ~reply.hasUrl
    THEN [kind |-> "raise", value |-> <<>>, exc |-> "KeyError", requests |-> 1]
    ELSE [kind |-> "return", value |-> reply.url, exc |-> "none", requests |-> 1]

\* lines 46-69, given the reply the GET would receive.  `requests` is the
\* number of GETs issued.
UrlToWsEndpoint(endpoint_url, reply) ==
    IF StartsWith(endpoint_url, WS_SCHEME)
    THEN [kind |-> "return", value |-> endpoint_url, exc |-> "none", requests |-> 0]
    ELSE IF reply.kind = "ConnectError"
    THEN [kind |-> "raise", value |-> <<>>,
          exc |-> "BrowserWebSocketConnectionError", requests |-> 1]
    ELSE IF reply.status # 200
    THEN [kind |-> "raise", value |-> <<>>, exc |-> "ValueError", requests |-> 1]
    ELSE IF ~reply.json      \* json.loads
    THEN [kind |-> "raise", value |-> <<>>, exc |-> "JSONDecodeError", requests |-> 1]
    ELSE IF ~reply.hasUrl    \* json_data["webSocketDebuggerUrl"]
    THEN [kind |-> "raise", value |-> <<>>, exc |-> "KeyError", requests |-> 1]
    ELSE [kind |-> "return", value |-> reply.url, exc |-> "none", requests |-> 1]

----------------------------------------------------------------------------
(* cmd_worker.py and automator.py: main, the Automator scope and grab_canvas *)

SITES ==
    <<"epicgames", "gmail", "vinted", "outlook">>

\* any() for all()
AnyOf(checks) ==
    \E i \in 1..Len(checks) : checks[i]

\* all(list of booleans)
All(checks) ==
    \A i \in 1..Len(checks) : checks[i]

\* the variables of the captcha poller
pollVars ==
    <<pollState, captcha_not_detected_checks, batchIter, samples, text, markerBudget>>

\* the variables of grab_canvas
grabVars ==
    <<site, activeFlow, cleaned, flowsStarted, screenshots, capture_results, swallowed,
      result>>

\* the variables of the attachment
attachVars ==
    <<pw, attached, nContexts, nPages, ws_endpoint, httpRequests>>

\* cmd_worker.main line 22: remote_debugging_port = find_proc(); an exception
\* of find_proc leaves main before the Automator exists
FindProc ==
    /\ pc = "find_proc"
    /\ LET r == find_proc(procTable) IN
       IF r.kind = "return"
       THEN /\ remote_debugging_port' = r.value
            /\ pc' = "Automator"
            /\ UNCHANGED <<error, raisedBy>>
       ELSE /\ error' = r.exc
            /\ raisedBy' = "find_proc"
            /\ pc' = "failed"
            /\ UNCHANGED remote_debugging_port
    /\ UNCHANGED <<procTable, endpoint, httpReply, gmailCheck,
                   attachVars, grabVars, pollVars>>

\* Automator.__init__: main has created the screenshot directory, so line 104
\* does not raise; rmtree(ignore_errors=True) may leave the scratch directory
\* behind, and then os.makedirs raises FileExistsError
AutomatorInit ==
    /\ pc = "Automator"
    /\ \E scratchLeft \in BOOLEAN :
        IF scratchLeft
        THEN /\ error' = "FileExistsError"
             /\ raisedBy' = "Automator"
             /\ pc' = "failed"
        ELSE /\ pc' = "connect"
             /\ UNCHANGED <<error, raisedBy>>
    /\ UNCHANGED <<procTable, endpoint, httpReply, gmailCheck,
                   remote_debugging_port, attachVars, grabVars, pollVars>>

\* __aenter__ line 139, Automator.connect: an exception leaves __aenter__, so
\* the `async with` body and __aexit__ do not run
Connect ==
    /\ pc = "connect"
    /\ \E reply \in HttpRepliesFor(remote_debugging_port) :
        LET url == HTTP_LOCALHOST \o IntToStr(remote_debugging_port)
            r == UrlToWsEndpoint(url, reply)
        IN /\ endpoint' = url
           /\ httpReply' = IF r.requests = 0 THEN httpReply ELSE reply
           /\ httpRequests' = httpRequests + r.requests
           /\ IF r.kind = "return"
              THEN /\ ws_endpoint' = r.value
                   /\ pc' = "pw_start"
                   /\ UNCHANGED <<error, raisedBy>>
              ELSE /\ error' = r.exc
                   /\ raisedBy' = "connect"
                   /\ pc' = "failed"
                   /\ UNCHANGED ws_endpoint
    /\ UNCHANGED <<procTable, gmailCheck, remote_debugging_port, pw, attached, nContexts,
                   nPages, grabVars, pollVars>>

\* __aenter__ line 140
PwStart ==
    /\ pc = "pw_start"
    /\ pw' = "started"
    /\ pc' = "connect_over_cdp"
    /\ UNCHANGED <<procTable, endpoint, httpReply, gmailCheck,
                   remote_debugging_port, error, raisedBy, attached, nContexts,
                   nPages, ws_endpoint, httpRequests, grabVars, pollVars>>

\* __aenter__ line 141: the browser answers with its contexts and pages, or
\* the connection fails
ConnectOverCdp ==
    /\ pc = "connect_over_cdp"
    /\ \/ /\ attached' = TRUE
          /\ \E nc \in 0..1, np \in 0..1 : nContexts' = nc /\ nPages' = np
          /\ pc' = "contexts"
          /\ UNCHANGED <<error, raisedBy>>
       \/ /\ error' = "PlaywrightError"
          /\ raisedBy' = "connect_over_cdp"
          /\ pc' = "failed"
          /\ UNCHANGED <<attached, nContexts, nPages>>
    /\ UNCHANGED <<procTable, endpoint, httpReply, gmailCheck,
                   remote_debugging_port, pw, ws_endpoint, httpRequests,
                   grabVars, pollVars>>

\* __aenter__ line 142: self.browser.contexts[0]
SelectContext ==
    /\ pc = "contexts"
    /\ IF nContexts = 0
       THEN /\ error' = "IndexError"
            /\ raisedBy' = "contexts"
            /\ pc' = "failed"
       ELSE /\ pc' = "pages"
            /\ UNCHANGED <<error, raisedBy>>
    /\ UNCHANGED <<procTable, endpoint, httpReply, gmailCheck,
                   remote_debugging_port, attachVars, grabVars, pollVars>>

\* __aenter__ lines 143-146: self.context.pages[0], then main enters the body
\* of the `async with` and calls grab_canvas
SelectPage ==
    /\ pc = "pages"
    /\ IF nPages = 0
       THEN /\ error' = "IndexError"
            /\ raisedBy' = "pages"
            /\ pc' = "failed"
       ELSE /\ pc' = "check_prerequisites"
            /\ UNCHANGED <<error, raisedBy>>
    /\ UNCHANGED <<procTable, endpoint, httpReply, gmailCheck,
                   remote_debugging_port, attachVars, grabVars, pollVars>>

\* grab_canvas lines 565-567 (_check_prerequisites, lines 156-162): the page
\* loads and its text parses, or page.goto / json.loads raises
CheckPrerequisites ==
    /\ pc = "check_prerequisites"
    /\ \/ /\ capture_results' = <<>>
          /\ site' = 1
          /\ pc' = "clean_up"
          /\ UNCHANGED <<error, raisedBy>>
       \/ /\ error' = "PlaywrightError"
          /\ raisedBy' = "check_prerequisites"
          /\ pc' = "aexit"
          /\ UNCHANGED <<capture_results, site>>
    /\ UNCHANGED <<procTable, endpoint, httpReply, gmailCheck,
                   remote_debugging_port, attachVars, activeFlow, cleaned,
                   flowsStarted, screenshots, swallowed, result, pollVars>>

\* _clean_up (lines 148-154), called at lines 570, 586, 592 and 598: cookies
\* cleared and the neutral page loaded, or page.goto raises
CleanUp ==
    /\ pc = "clean_up"
    /\ \/ /\ cleaned' = TRUE
          /\ pc' = "flow_start"
          /\ UNCHANGED <<error, raisedBy>>
       \/ /\ error' = "PlaywrightError"
          /\ raisedBy' = "clean_up"
          /\ pc' = "aexit"
          /\ UNCHANGED cleaned
    /\ UNCHANGED <<procTable, endpoint, httpReply, gmailCheck,
                   remote_debugging_port, attachVars, site, activeFlow,
                   flowsStarted, screenshots, capture_results, swallowed, result, pollVars>>

\* lines 575, 587, 593, 599: grab_canvas calls the flow of the current site
StartFlow ==
    /\ pc = "flow_start"
    /\ activeFlow' = SITES[site]
    /\ flowsStarted' = Append(flowsStarted, SITES[site])
    /\ cleaned' = FALSE
    /\ pc' = "flow"
    /\ UNCHANGED <<procTable, endpoint, httpReply, gmailCheck,
                   remote_debugging_port, error, raisedBy, attachVars, site,
                   screenshots, capture_results, swallowed, result, pollVars>>

\* line 576 without the try/except: nothing is caught
EpicgamesCaughtNothing(exc) ==
    FALSE

\* line 576: the except clause around the Epic Games flow
EpicgamesCaught(exc) ==
    exc = "BadProxyIPError"

\* grab_canvas after the flow of the current site ended with outcome o: lines
\* 571-582 for Epic Games (canvas_capture_success stays False when the
\* exception is caught), lines 587-588, 593-594, 599-600 for the other sites,
\* where nothing catches
FlowEnded(o) ==
    /\ activeFlow' = "none"
    /\ IF o.kind = "return"
       THEN /\ capture_results' = Append(capture_results, o.value)
            /\ pc' = "save_screenshot"
            /\ UNCHANGED <<error, raisedBy, swallowed>>
       ELSE IF SITES[site] = "epicgames" /\ EpicgamesCaught(o.exc)
       THEN /\ capture_results' = Append(capture_results, FALSE)
            /\ swallowed' = TRUE
            /\ pc' = "save_screenshot"
            /\ UNCHANGED <<error, raisedBy>>
       ELSE /\ error' = o.exc
            /\ raisedBy' = SITES[site]
            /\ pc' = "aexit"
            /\ UNCHANGED <<capture_results, swallowed>>

\* _grab_canvas_epicgames lines 530-549, one pass of its loop: captcha text in
\* the OCR result raises, the register URL ends the loop, else it retries
EpicgamesCheck(captchaText, urlChanged) ==
    IF captchaText THEN Raise("BadProxyIPError")
    ELSE IF urlChanged THEN Return(TRUE)
    ELSE Continue

\* lines 265-279 with the two checks in the other order: the failure text is
\* looked for before the success marker
GmailTerminalCheckSorryFirst(successMarker, sorryText) ==
    IF sorryText THEN Raise("BadProxyIPError")
    ELSE IF successMarker THEN Return(TRUE)
    ELSE Return(FALSE)

\* _grab_canvas_gmail lines 265-279: the terminal check
GmailTerminalCheck(successMarker, sorryText) ==
    IF successMarker THEN Return(TRUE)
    ELSE IF sorryText THEN Raise("BadProxyIPError")
    ELSE Return(FALSE)

\* _grab_canvas_vinted lines 363-378: the captcha-frame check and the end
VintedCaptchaCheck(captchaFrame) ==
    IF captchaFrame THEN Raise("BadProxyIPError") ELSE Return(TRUE)

\* _grab_canvas_outlook lines 481-487
OutlookResult(privacyNoticeUrl) ==
    IF privacyNoticeUrl THEN Return(TRUE) ELSE Return(FALSE)

GrabCanvasEpicgames ==
    /\ pc = "flow"
    /\ SITES[site] = "epicgames"
    /\ \E captchaText \in BOOLEAN, urlChanged \in BOOLEAN :
        LET o == EpicgamesCheck(captchaText, urlChanged) IN
        IF o.kind = "continue"
        THEN UNCHANGED <<pc, activeFlow, capture_results, error, raisedBy, swallowed>>
        ELSE FlowEnded(o)
    /\ UNCHANGED <<procTable, endpoint, httpReply, gmailCheck,
                   remote_debugging_port, attachVars, site, cleaned,
                   flowsStarted, screenshots, result, pollVars>>

GrabCanvasGmail ==
    /\ pc = "flow"
    /\ SITES[site] = "gmail"
    /\ \E successMarker \in BOOLEAN, sorryText \in BOOLEAN :
        /\ gmailCheck' = <<[successMarker |-> successMarker, sorryText |-> sorryText]>>
        /\ FlowEnded(GmailTerminalCheck(successMarker, sorryText))
    /\ UNCHANGED <<procTable, endpoint, httpReply, remote_debugging_port, attachVars, site, cleaned,
                   flowsStarted, screenshots, result, pollVars>>

GrabCanvasVinted ==
    /\ pc = "flow"
    /\ SITES[site] = "vinted"
    /\ \E captchaFrame \in BOOLEAN : FlowEnded(VintedCaptchaCheck(captchaFrame))
    /\ UNCHANGED <<procTable, endpoint, httpReply, gmailCheck,
                   remote_debugging_port, attachVars, site, cleaned,
                   flowsStarted, screenshots, result, pollVars>>

\* a page operation of the running flow (goto, click, fill, wait_for_load_state)
\* raises: the flow ends with that exception
FlowPageError ==
    /\ pc = "flow"
    /\ FlowEnded(Raise("PlaywrightError"))
    /\ UNCHANGED <<procTable, endpoint, httpReply, gmailCheck,
                   remote_debugging_port, attachVars, site, cleaned,
                   flowsStarted, screenshots, result, pollVars>>

----------------------------------------------------------------------------
(* automator.py lines 456-479 and ocr/__init__.py: the captcha poller *)

\* range(3) at line 461
BATCH_SIZE == 3

MARKER_SOLVE_PUZZLE ==
    <<"P", "l", "e", "a", "s", "e", " ", "s", "o", "l", "v", "e", " ", "t", "h", "e", " ", "p", "u", "z", "z", "l", "e">>

MARKER_USE_ARROWS ==
    <<"U", "s", "e", " ", "t", "h", "e", " ", "a", "r", "r", "o", "w", "s", " ", "t", "o", " ">>

RawSolvePuzzle ==
    <<"P", "l", "e", "a", "s", "e", " ", "s", "o", "l", "v", "e", " ", "t", "h", "e", " ", "p", "u", "z", "z", "l", "e", " ", "t", "o", " ", "c", "o", "n", "t", "i", "n", "u", "e", "\n">>

RawSolvePuzzleWrapped ==
    <<"P", "l", "e", "a", "s", "e", " ", "s", "o", "l", "v", "e", "\n", "t", "h", "e", " ", "p", "u", "z", "z", "l", "e">>

RawSolvePuzzleLower ==
    <<"p", "l", "e", "a", "s", "e", " ", "s", "o", "l", "v", "e", " ", "t", "h", "e", " ", "p", "u", "z", "z", "l", "e">>

RawUseArrows ==
    <<"U", "s", "e", " ", "t", "h", "e", " ", "a", "r", "r", "o", "w", "s", " ", "t", "o", " ", "r", "o", "t", "a", "t", "e">>

RawUseArrowsEnd ==
    <<"U", "s", "e", " ", "t", "h", "e", " ", "a", "r", "r", "o", "w", "s", " ", "t", "o", "\n">>

RawClean ==
    <<"C", "r", "e", "a", "t", "e", " ", "a", "c", "c", "o", "u", "n", "t", "\n">>

\* what pytesseract.image_to_string may read off a screenshot
RawTexts ==
    {<<>>, RawSolvePuzzle, RawSolvePuzzleWrapped, RawSolvePuzzleLower, RawUseArrows,
     RawUseArrowsEnd, RawClean}

\* ocr_image lines 67-71
ocr_image(raw, normalize_text) ==
    IF normalize_text /\ raw # <<>>
    THEN Strip(Replace(Replace(raw, "\n", " "), "\r", " "))
    ELSE raw

UpperLetters ==
    <<"A", "B", "C", "D", "E", "F", "G", "H", "I", "J", "K", "L", "M">> \o
    <<"N", "O", "P", "Q", "R", "S", "T", "U", "V", "W", "X", "Y", "Z">>

LowerLetters ==
    <<"a", "b", "c", "d", "e", "f", "g", "h", "i", "j", "k", "l", "m">> \o
    <<"n", "o", "p", "q", "r", "s", "t", "u", "v", "w", "x", "y", "z">>

\* str.lower() on ASCII text
ToLower(s) ==
    [i \in 1..Len(s) |->
        IF \E k \in 1..Len(UpperLetters) : UpperLetters[k] = s[i]
        THEN LowerLetters[CHOOSE k \in 1..Len(UpperLetters) : UpperLetters[k] = s[i]]
        ELSE s[i]]

\* line 469 comparing without regard to letter case
CaptchaTextInIgnoreCase(t) ==
    \/ Contains(ToLower(MARKER_SOLVE_PUZZLE), ToLower(t))
    \/ Contains(ToLower(MARKER_USE_ARROWS), ToLower(t))

\* line 469
CaptchaTextIn(t) ==
    Contains(MARKER_SOLVE_PUZZLE, t) \/ Contains(MARKER_USE_ARROWS, t)

\* lines 469-475 with the two branches exchanged
AppendCheckInverted(checks, detected) ==
    IF detected THEN Append(checks, TRUE) ELSE Append(checks, FALSE)

\* lines 469-475 with the append of line 472 removed: a marker-positive sample
\* adds nothing to the list
AppendCheckSkipMarker(checks, detected) ==
    IF detected THEN checks ELSE Append(checks, TRUE)

\* lines 469-475: what one sample appends to the batch's list
AppendCheck(checks, detected) ==
    IF detected THEN Append(checks, FALSE) ELSE Append(checks, TRUE)

\* line 460 moved out of the `while True` loop: the list is never emptied
FreshChecksKept(checks) ==
    checks

\* line 460
FreshChecks(checks) ==
    <<>>

\* line 477 with any() for all()
BatchClearAny(checks) ==
    \E i \in 1..Len(checks) : checks[i]

\* line 477
BatchClear(checks) ==
    All(checks)

\* lines 477-479 with the loop given up after a failed batch
AfterBatchGiveUp(checks) ==
    IF BatchClear(checks) THEN "Clear" ELSE "Timeout"

\* lines 477-479: `break` leaves the loop, anything else goes round again
AfterBatch(checks) ==
    IF BatchClear(checks) THEN "Clear" ELSE "BatchStart"

\* _grab_canvas_outlook lines 386-456: the sign-up form is submitted and the
\* flow arrives at the polling loop
OutlookForm ==
    /\ pc = "flow"
    /\ SITES[site] = "outlook"
    /\ pc' = "outlook_poll"
    /\ pollState' = "BatchStart"
    /\ UNCHANGED <<procTable, endpoint, httpReply, gmailCheck,
                   remote_debugging_port, error, raisedBy, attachVars, grabVars,
                   captcha_not_detected_checks, batchIter, samples, text, markerBudget>>

\* lines 458-460: the top of the `while True` loop (the state the design calls
\* StillPresent when a batch has failed)
PollBatchStart ==
    /\ pc = "outlook_poll"
    /\ pollState = "BatchStart"
    /\ captcha_not_detected_checks' = FreshChecks(captcha_not_detected_checks)
    /\ batchIter' = 0
    /\ pollState' = "Sampling"
    /\ UNCHANGED <<pc, procTable, endpoint, httpReply, gmailCheck,
                   remote_debugging_port, error, raisedBy, attachVars,
                   grabVars, samples, text, markerBudget>>

\* lines 461-475: one pass of the `for _ in range(3)` loop: screenshot, OCR,
\* classification
PollSample ==
    /\ pc = "outlook_poll"
    /\ pollState = "Sampling"
    /\ batchIter < BATCH_SIZE
    /\ \E raw \in RawTexts :
        LET t == ocr_image(raw, TRUE)
            detected == CaptchaTextIn(t)
        IN /\ detected => markerBudget > 0
           /\ markerBudget' = IF detected THEN markerBudget - 1 ELSE markerBudget
           /\ text' = t
           /\ captcha_not_detected_checks' = AppendCheck(captcha_not_detected_checks, detected)
           /\ samples' = Append(samples, ~detected)
    /\ batchIter' = batchIter + 1
    /\ pollState' = IF batchIter + 1 = BATCH_SIZE THEN "BatchEvaluating" ELSE "Sampling"
    /\ UNCHANGED <<pc, procTable, endpoint, httpReply, gmailCheck,
                   remote_debugging_port, error, raisedBy, attachVars,
                   grabVars>>

\* lines 477-479: the batch is evaluated
PollEvaluate ==
    /\ pc = "outlook_poll"
    /\ pollState = "BatchEvaluating"
    /\ pollState' = AfterBatch(captcha_not_detected_checks)
    /\ pc' = IF pollState' = "Clear" THEN "outlook_final" ELSE pc
    /\ UNCHANGED <<procTable, endpoint, httpReply, gmailCheck,
                   remote_debugging_port, error, raisedBy, attachVars, grabVars,
                   captcha_not_detected_checks, batchIter, samples, text, markerBudget>>

\* lines 481-487: the flow's result
OutlookFinish ==
    /\ pc = "outlook_final"
    /\ \E privacyNoticeUrl \in BOOLEAN : FlowEnded(OutlookResult(privacyNoticeUrl))
    /\ UNCHANGED <<procTable, endpoint, httpReply, gmailCheck,
                   remote_debugging_port, attachVars, site, cleaned,
                   flowsStarted, screenshots, result, pollVars>>

----------------------------------------------------------------------------
(* grab_canvas, continued, and the end of the `async with` scope *)

\* _save_screenshot (lines 167-174), called at lines 583, 589, 595 and 601
\* lines 583-600 with the _clean_up calls of lines 586, 592, 598 removed: the
\* next flow starts right after the screenshot
SaveScreenshotNoCleanUp ==
    /\ pc = "save_screenshot"
    /\ screenshots' = Append(screenshots, SITES[site])
    /\ IF site < Len(SITES)
       THEN site' = site + 1 /\ pc' = "flow_start"
       ELSE pc' = "return" /\ UNCHANGED site
    /\ UNCHANGED <<procTable, endpoint, httpReply, gmailCheck,
                   remote_debugging_port, error, raisedBy, attachVars,
                   activeFlow, cleaned, flowsStarted, capture_results, swallowed, result,
                   pollVars>>

\* lines 583-584, 589-590, 595-596, 601: _save_screenshot(<site>), then on to
\* the next site's _clean_up or to the return
SaveScreenshot ==
    /\ pc = "save_screenshot"
    /\ screenshots' = Append(screenshots, SITES[site])
    /\ IF site < Len(SITES)
       THEN site' = site + 1 /\ pc' = "clean_up"
       ELSE pc' = "return" /\ UNCHANGED site
    /\ UNCHANGED <<procTable, endpoint, httpReply, gmailCheck,
                   remote_debugging_port, error, raisedBy, attachVars,
                   activeFlow, cleaned, flowsStarted, capture_results, swallowed, result,
                   pollVars>>

\* line 604
GrabCanvasReturn ==
    /\ pc = "return"
    /\ result' = <<All(capture_results)>>
    /\ pc' = "aexit"
    /\ UNCHANGED <<procTable, endpoint, httpReply, gmailCheck,
                   remote_debugging_port, error, raisedBy, attachVars, site,
                   activeFlow, cleaned, flowsStarted, screenshots, capture_results,
                   swallowed, pollVars>>

\* __aexit__ (lines 134-136), run by the `async with` of main when its body
\* ends, normally or by an exception, which then leaves main
AExit ==
    /\ pc = "aexit"
    /\ pw' = IF pw = "started" THEN "stopped" ELSE pw
    /\ pc' = IF error = "none" THEN "done" ELSE "failed"
    /\ UNCHANGED <<procTable, endpoint, httpReply, gmailCheck,
                   remote_debugging_port, error, raisedBy, attached, nContexts,
                   nPages, ws_endpoint, httpRequests, grabVars, pollVars>>

----------------------------------------------------------------------------
(* Specifications *)

InitRest ==
    /\ pc = "find_proc"
    /\ remote_debugging_port = -1
    /\ error = "none"
    /\ raisedBy = "none"
    /\ pw = "unset"
    /\ attached = FALSE
    /\ nContexts = 0
    /\ nPages = 0
    /\ ws_endpoint = <<>>
    /\ httpRequests = 0
    /\ gmailCheck = <<>>
    /\ site = 0
    /\ activeFlow = "none"
    /\ cleaned = FALSE
    /\ flowsStarted = <<>>
    /\ screenshots = <<>>
    /\ capture_results = <<>>
    /\ swallowed = FALSE
    /\ result = <<>>
    /\ pollState = "Idle"
    /\ captcha_not_detected_checks = <<>>
    /\ batchIter = 0
    /\ samples = <<>>
    /\ text = <<>>
    /\ markerBudget = MaxMarkerSamples

\* the whole program, started on one of the process tables of MainProcessTables
Init ==
    /\ procTable \in MainProcessTables
    /\ endpoint = <<>>
    /\ httpReply = NoReply
    /\ InitRest

Next ==
    \/ FindProc
    \/ AutomatorInit
    \/ Connect
    \/ PwStart
    \/ ConnectOverCdp
    \/ SelectContext
    \/ SelectPage
    \/ CheckPrerequisites
    \/ CleanUp
    \/ StartFlow
    \/ GrabCanvasEpicgames
    \/ GrabCanvasGmail
    \/ GrabCanvasVinted
    \/ FlowPageError
    \/ OutlookForm
    \/ PollBatchStart
    \/ PollSample
    \/ PollEvaluate
    \/ OutlookFinish
    \/ SaveScreenshot
    \/ GrabCanvasReturn
    \/ AExit

Spec ==
    Init /\ [][Next]_vars

\* the steps of the polling loop
PollerNext ==
    PollBatchStart \/ PollSample \/ PollEvaluate

\* the event loop resumes the polling coroutine after each asyncio.sleep:
\* whenever the loop can take a step, it eventually takes one
FairSpec ==
    Spec /\ WF_vars(PollerNext)

\* find_proc alone, on every generated process table
InitFindProc ==
    /\ procTable \in ProcessTables
    /\ endpoint = <<>>
    /\ httpReply = NoReply
    /\ InitRest

SpecFindProc ==
    InitFindProc /\ [][FindProc]_vars

WsOtherUrl ==
    <<"w", "s", ":", "/", "/", "l", "o", "c", "a", "l", "h", "o", "s", "t", ":", "9", "2", "2", "3", "/", "d", "e", "v", "t", "o", "o", "l", "s", "/", "b", "r", "o", "w", "s", "e", "r", "/", "f", "0", "0">>

WssEndpoint ==
    <<"w", "s", "s", ":", "/", "/", "r", "e", "m", "o", "t", "e", ".", "e", "x", "a", "m", "p", "l", "e", "/", "d", "e", "v", "t", "o", "o", "l", "s">>

HttpLoopback9222 ==
    <<"h", "t", "t", "p", ":", "/", "/", "1", "2", "7", ".", "0", ".", "0", ".", "1", ":", "9", "2", "2", "2", "/">>

\* the endpoints handed to _url_to_ws_endpoint: HTTP endpoints without and
\* with a trailing slash, and WebSocket endpoints
EndpointUrls ==
    {HTTP_LOCALHOST \o IntToStr(9222), HTTP_LOCALHOST \o IntToStr(9223) \o <<"/">>,
     HttpLoopback9222, WsDebuggerUrl, WssEndpoint}

\* what the endpoint may answer to the GET
UrlReplies ==
    {[kind |-> "ConnectError", status |-> 0, json |-> FALSE, hasUrl |-> FALSE, url |-> <<>>]}
    \cup [kind : {"response"}, status : {200, 404, 500}, json : BOOLEAN, hasUrl : BOOLEAN,
          url : {WsDebuggerUrl, WsOtherUrl}]

\* one call _url_to_ws_endpoint(endpoint), answered by httpReply if it asks
UrlToWsEndpointCall ==
    /\ pc = "url_call"
    /\ LET r == UrlToWsEndpoint(endpoint, httpReply) IN
       /\ httpRequests' = httpRequests + r.requests
       /\ IF r.kind = "return"
          THEN /\ ws_endpoint' = r.value
               /\ pc' = "url_returned"
               /\ UNCHANGED <<error, raisedBy>>
          ELSE /\ error' = r.exc
               /\ raisedBy' = "_url_to_ws_endpoint"
               /\ pc' = "url_raised"
               /\ UNCHANGED ws_endpoint
    /\ UNCHANGED <<procTable, endpoint, httpReply, gmailCheck,
                   remote_debugging_port, pw,
                   attached, nContexts, nPages, grabVars, pollVars>>

InitUrl ==
    /\ procTable = <<>>
    /\ endpoint \in EndpointUrls
    /\ httpReply \in UrlReplies
    /\ pc = "url_call"
    /\ remote_debugging_port = -1
    /\ error = "none"
    /\ raisedBy = "none"
    /\ pw = "unset"
    /\ attached = FALSE
    /\ nContexts = 0
    /\ nPages = 0
    /\ ws_endpoint = <<>>
    /\ httpRequests = 0
    /\ gmailCheck = <<>>
    /\ site = 0
    /\ activeFlow = "none"
    /\ cleaned = FALSE
    /\ flowsStarted = <<>>
    /\ screenshots = <<>>
    /\ capture_results = <<>>
    /\ swallowed = FALSE
    /\ result = <<>>
    /\ pollState = "Idle"
    /\ captcha_not_detected_checks = <<>>
    /\ batchIter = 0
    /\ samples = <<>>
    /\ text = <<>>
    /\ markerBudget = MaxMarkerSamples

\* _url_to_ws_endpoint alone, on every endpoint and reply
SpecUrl ==
    InitUrl /\ [][UrlToWsEndpointCall]_vars

----------------------------------------------------------------------------
(* Properties of the captcha poller *)

\* the positions of the latest BATCH_SIZE samples in the history
LastBatch ==
    {i \in 1..Len(samples) : i > Len(samples) - BATCH_SIZE}

\* a full batch has just been taken and one of its samples showed a marker
MarkerInLastBatch ==
    /\ Len(samples) >= BATCH_SIZE
    /\ \E i \in LastBatch : ~samples[i]

\* C1: when a batch of 3 samples that contains a marker-positive sample is
\* evaluated, the poller does not become Clear and stays in the polling loop.
C1_MarkerBatchNeverClear ==
    [][(pollState = "BatchEvaluating" /\ MarkerInLastBatch)
        => (pollState' # "Clear" /\ pc' = "outlook_poll")]_vars

\* a batch with a marker sample has been evaluated and the loop has restarted
C1_Witness ==
    /\ pollState = "BatchStart"
    /\ MarkerInLastBatch

FirstBatchClean ==
    /\ Len(samples) >= BATCH_SIZE
    /\ \A i \in 1..BATCH_SIZE : samples[i]

\* C2: when every sample of the first batch is marker-free, the evaluation of
\* that batch makes the poller Clear, and exactly 3 samples are ever taken.
C2_CleanFirstBatchClearsAfterThree ==
    /\ [](FirstBatchClean =>
            /\ Len(samples) = BATCH_SIZE
            /\ pollState \in {"BatchEvaluating", "Clear"})
    /\ [][(FirstBatchClean /\ pollState = "BatchEvaluating") => pollState' = "Clear"]_vars

\* the poller is Clear after one batch, and the Outlook flow has gone on
C2_Witness ==
    /\ pollState = "Clear"
    /\ Len(samples) = BATCH_SIZE
    /\ pc = "save_screenshot"

\* C3: the list evaluated at the end of a batch holds the samples of that
\* batch only, so Clear is declared only at a batch boundary whose own 3
\* samples are all marker-free; marker-free samples of an earlier, failed
\* batch never count.
C3_NoCarryOver ==
    /\ pollState \in {"Sampling", "BatchEvaluating"} =>
         /\ batchIter <= Len(samples)
         /\ captcha_not_detected_checks
              = SubSeq(samples, Len(samples) - batchIter + 1, Len(samples))
    /\ pollState = "Clear" =>
         /\ Len(samples) >= BATCH_SIZE
         /\ Len(samples) % BATCH_SIZE = 0
         /\ \A i \in LastBatch : samples[i]

\* three consecutive marker-free samples straddle a batch boundary (the batch
\* before had a marker) and the poller is still sampling
C3_Witness ==
    /\ pollState = "Sampling"
    /\ batchIter \in 1..(BATCH_SIZE - 1)
    /\ Len(samples) > BATCH_SIZE
    /\ \A i \in LastBatch : samples[i]

----------------------------------------------------------------------------
(* Properties of find_proc, stated on the process table as the design      *)
(* describes a match (section 4.1)                                         *)

\* the argument is `--remote-debugging-port=<port>` with an integer <port>
IsPortArg(arg) ==
    /\ StartsWith(Strip(arg), PORT_ARG_PREFIX)
    /\ IsIntLiteral(SubSeq(Strip(arg), Len(PORT_ARG_PREFIX) + 1, Len(Strip(arg))))

PortOfArg(arg) ==
    IntValue(SubSeq(Strip(arg), Len(PORT_ARG_PREFIX) + 1, Len(Strip(arg))))

\* table[i] is a worker named with the known worker name whose parent is the
\* host application and whose parent's command line references the path marker
IsMatchingWorker(table, i) ==
    /\ table[i].name = WORKER_PROC_NAME
    /\ Parent(table, table[i]) # NoProcess
    /\ Parent(table, table[i]).name = HOST_PROC_NAME
    /\ found_proc(Parent(table, table[i]))

\* table[j] is a browser child of table[i] whose k-th argument gives the port
IsMatchingChildArg(table, i, j, k) ==
    /\ table[j].ppid = table[i].pid
    /\ table[j].name = BROWSER_PROC_NAME
    /\ k \in 1..Len(table[j].cmdline)
    /\ IsPortArg(table[j].cmdline[k])

\* the matching worker/browser pairs, with the argument that carries the port
MaxCmdLen(table) ==
    LET lens == {Len(table[i].cmdline) : i \in 1..Len(table)} \cup {0}
    IN CHOOSE n \in lens : \A x \in lens : x <= n

MatchingPairs(table) ==
    {m \in (1..Len(table)) \X (1..Len(table)) \X (1..MaxCmdLen(table)) :
        IsMatchingWorker(table, m[1]) /\ IsMatchingChildArg(table, m[1], m[2], m[3])}

\* process-iteration order: by worker, then by child, then by argument
Before(m, n) ==
    \/ m[1] < n[1]
    \/ m[1] = n[1] /\ m[2] < n[2]
    \/ m[1] = n[1] /\ m[2] = n[2] /\ m[3] <= n[3]

FirstMatchingPort(table) ==
    LET first == CHOOSE m \in MatchingPairs(table) :
                     \A n \in MatchingPairs(table) : Before(m, n)
    IN PortOfArg(table[first[2]].cmdline[first[3]])

FindProcRan ==
    pc # "find_proc"

\* C5: on a process table without a matching worker/browser pair, find_proc
\* returns 0.
C5_NoMatchReturnsZero ==
    (FindProcRan /\ MatchingPairs(procTable) = {})
        => (error = "none" /\ remote_debugging_port = 0)

\* C6: on a process table with a matching worker/browser pair, find_proc
\* returns the port of the first matching pair in process-iteration order.
C6_FirstMatchWins ==
    (FindProcRan /\ MatchingPairs(procTable) # {})
        => (error = "none" /\ remote_debugging_port = FirstMatchingPort(procTable))

\* C7: a port returned by find_proc is the port of a matching pair: of a
\* worker whose host parent's command line references the path marker.
C7_PortOnlyWithPathMarker ==
    (FindProcRan /\ error = "none" /\ remote_debugging_port # 0)
        => \E m \in MatchingPairs(procTable) :
              PortOfArg(procTable[m[2]].cmdline[m[3]]) = remote_debugging_port

\* C8: find_proc raises no exception, whatever the process table.
C8_NeverRaises ==
    FindProcRan => error = "none"

----------------------------------------------------------------------------
(* Properties of main and grab_canvas *)

Range(s) ==
    {s[i] : i \in 1..Len(s)}

C11_ResultIsConjunction ==
    result # <<>> =>
        /\ Len(capture_results) = Len(SITES)
        /\ flowsStarted = SITES
        /\ result[1] = (/\ capture_results[1]
                        /\ capture_results[2]
                        /\ capture_results[3]
                        /\ capture_results[4])
        /\ swallowed => result[1] = FALSE

\* grab_canvas has returned False although three of the four sites succeeded
C11_Witness ==
    /\ result = <<FALSE>>
    /\ swallowed
    /\ capture_results = <<FALSE, TRUE, TRUE, TRUE>>
    /\ pc = "done"

\* the reply is a 200 whose body is JSON holding webSocketDebuggerUrl
IsVersionReply(reply) ==
    /\ reply.kind = "response"
    /\ reply.status = 200
    /\ reply.json
    /\ reply.hasUrl

\* C12: once _url_to_ws_endpoint has finished, an endpoint that starts with
\* "ws" has been returned unchanged and no HTTP request was issued; any other
\* endpoint whose GET was answered 200 with JSON holding webSocketDebuggerUrl
\* has returned exactly that field's value, after one request.
C12_UrlToWsEndpointReturns ==
    pc # "url_call" =>
        /\ StartsWith(endpoint, WS_SCHEME) =>
               /\ pc = "url_returned"
               /\ ws_endpoint = endpoint
               /\ httpRequests = 0
        /\ (~StartsWith(endpoint, WS_SCHEME) /\ IsVersionReply(httpReply)) =>
               /\ pc = "url_returned"
               /\ ws_endpoint = httpReply.url
               /\ httpRequests = 1

\* an HTTP endpoint with a trailing slash was converted to the URL of the reply
C12_Witness ==
    /\ pc = "url_returned"
    /\ endpoint = HTTP_LOCALHOST \o IntToStr(9223) \o <<"/">>
    /\ IsVersionReply(httpReply)
    /\ httpReply.url = WsOtherUrl
    /\ ws_endpoint = WsOtherUrl
    /\ httpRequests = 1

\* the errors an `except ValueError` handler receives: ValueError and its
\* subclass json.JSONDecodeError
UnexpectedResponseErrors ==
    {"ValueError", "JSONDecodeError"}

\* C13: when attaching to DevTools fails, the run has failed before any site
\* flow started; the error is BrowserWebSocketConnectionError when the
\* endpoint could not be reached, and the unexpected-response error (the
\* ValueError of line 60, distinct from the connection error) when the
\* endpoint answered with a non-200 status or a malformed or incomplete body.
C13_AttachFailuresTyped ==
    raisedBy = "connect" =>
        /\ pc = "failed"
        /\ flowsStarted = <<>>
        /\ activeFlow = "none"
        /\ httpReply.kind = "ConnectError" => error = "BrowserWebSocketConnectionError"
        /\ httpReply.kind = "response" => error \in UnexpectedResponseErrors

\* s is an initial segment of t
IsPrefix(s, t) ==
    /\ Len(s) =< Len(t)
    /\ \A i \in 1..Len(s) : s[i] = t[i]

\* the site flows run one at a time in the order of SITES, and each site's
\* screenshot is saved between the end of its flow and the next clean-up
FlowsInOrder ==
    /\ IsPrefix(flowsStarted, SITES)
    /\ IsPrefix(screenshots, flowsStarted)
    /\ activeFlow \in {"none"} \cup Range(SITES)
    /\ activeFlow # "none" =>
           /\ flowsStarted # <<>>
           /\ activeFlow = flowsStarted[Len(flowsStarted)]
           /\ Len(screenshots) = Len(flowsStarted) - 1
    /\ pc \in {"clean_up", "flow_start"} =>
           /\ activeFlow = "none"
           /\ screenshots = flowsStarted
    /\ cleaned => pc = "flow_start"

\* a flow starts only as the step right after a completed clean-up, and it is
\* the flow of the next site; a clean-up completes only from the clean-up step
FlowStartsAfterCleanUp ==
    /\ flowsStarted' # flowsStarted =>
           /\ cleaned
           /\ activeFlow = "none"
           /\ Len(flowsStarted) < Len(SITES)
           /\ flowsStarted' = Append(flowsStarted, SITES[Len(flowsStarted) + 1])
           /\ activeFlow' = SITES[Len(flowsStarted) + 1]
    /\ (cleaned' /\ ~cleaned) => (pc = "clean_up" /\ error' = "none")
    /\ screenshots' # screenshots =>
           /\ activeFlow = "none"
           /\ Len(screenshots) < Len(flowsStarted)
           /\ screenshots' = Append(screenshots, flowsStarted[Len(flowsStarted)])

\* C14: grab_canvas runs one flow at a time in the order Epic Games, Gmail,
\* Vinted, Outlook; every flow is immediately preceded by a completed
\* clean-up; a site's screenshot is saved after its flow ended and before the
\* clean-up of the next site begins.
C14_OneFlowAtATimeInOrder ==
    []FlowsInOrder /\ [][FlowStartsAfterCleanUp]_vars

\* the Outlook flow is active, after the three earlier flows each ran behind a
\* clean-up and had their screenshots saved
C14_Witness ==
    /\ activeFlow = "outlook"
    /\ flowsStarted = SITES
    /\ screenshots = <<"epicgames", "gmail", "vinted">>
    /\ pc = "outlook_poll"

\* the outcome of the Gmail flow, as grab_canvas and main saw it
GmailReturned(b) ==
    /\ Len(capture_results) >= 2
    /\ capture_results[2] = b

GmailRaisedBadProxy ==
    /\ raisedBy = "gmail"
    /\ error = "BadProxyIPError"
    /\ Len(capture_results) = 1

\* C15: once the Gmail flow has made its terminal check, it has returned True
\* iff the success marker was present, raised BadProxyIPError iff the marker
\* was absent and the "Sorry, we could not create your Google Account." text
\* was present, and returned False iff both were absent; exactly one of the
\* three outcomes has happened.
C15_GmailTerminalOutcomes ==
    gmailCheck # <<>> =>
        LET g == gmailCheck[1] IN
        /\ GmailReturned(TRUE) <=> g.successMarker
        /\ GmailRaisedBadProxy <=> (~g.successMarker /\ g.sorryText)
        /\ GmailReturned(FALSE) <=> (~g.successMarker /\ ~g.sorryText)
        /\ \/ GmailReturned(TRUE) /\ ~GmailRaisedBadProxy /\ ~GmailReturned(FALSE)
           \/ ~GmailReturned(TRUE) /\ GmailRaisedBadProxy /\ ~GmailReturned(FALSE)
           \/ ~GmailReturned(TRUE) /\ ~GmailRaisedBadProxy /\ GmailReturned(FALSE)

\* the Gmail page showed the failure text without the success marker, and the
\* BadProxyIPError left main
C15_Witness ==
    /\ gmailCheck = <<[successMarker |-> FALSE, sorryText |-> TRUE]>>
    /\ GmailRaisedBadProxy
    /\ pc = "failed"

TextSolvePuzzleToContinue ==
    <<"P", "l", "e", "a", "s", "e", " ", "s", "o", "l", "v", "e", " ", "t", "h", "e", " ", "p", "u", "z", "z", "l", "e",
      " ", "t", "o", " ", "c", "o", "n", "t", "i", "n", "u", "e">>

TextSolvePuzzleLower ==
    <<"p", "l", "e", "a", "s", "e", " ", "s", "o", "l", "v", "e", " ", "t", "h", "e", " ", "p", "u", "z", "z", "l", "e">>

\* a sample of the current batch has just been classified; `text` is its
\* normalized OCR text and the last entry of the list is its classification
SampleTaken ==
    /\ pc = "outlook_poll"
    /\ pollState \in {"Sampling", "BatchEvaluating"}
    /\ captcha_not_detected_checks # <<>>

\* the latest sample was classified as captcha-present
LastSamplePresent ==
    ~captcha_not_detected_checks[Len(captcha_not_detected_checks)]

\* C16: a sample is classified captcha-present iff its normalized text holds
\* one of the two marker phrases as a case-sensitive substring; the text
\* "Please solve the puzzle to continue" is captcha-present, and the same
\* phrase in lower case is not.
C16_SampleClassification ==
    SampleTaken =>
        /\ LastSamplePresent <=>
               \/ \E i \in 1..(Len(text) - Len(MARKER_SOLVE_PUZZLE) + 1) :
                      SubSeq(text, i, i + Len(MARKER_SOLVE_PUZZLE) - 1) = MARKER_SOLVE_PUZZLE
               \/ \E i \in 1..(Len(text) - Len(MARKER_USE_ARROWS) + 1) :
                      SubSeq(text, i, i + Len(MARKER_USE_ARROWS) - 1) = MARKER_USE_ARROWS
        /\ text = TextSolvePuzzleToContinue => LastSamplePresent
        /\ text = TextSolvePuzzleLower => ~LastSamplePresent

\* the OCR read "Please solve the puzzle to continue" and the sample counted as
\* captcha-present
C16_Witness ==
    /\ SampleTaken
    /\ text = TextSolvePuzzleToContinue
    /\ LastSamplePresent

\* main has ended, normally or with an exception: no step remains
MainEnded ==
    pc \in {"done", "failed"}

\* C17: in every execution in which __aenter__ started the Playwright driver,
\* the driver has been stopped by the time main ends, whether the scope ended
\* normally, grab_canvas raised, or a later step of __aenter__ failed.
C17_DriverStoppedOnEveryExit ==
    MainEnded => pw # "started"

\* C18: every batch of the poller has exactly BATCH_SIZE samples: when a
\* batch is evaluated its list has BATCH_SIZE entries, whether or not a sample
\* showed a marker; within a batch the list has one entry per sample taken;
\* and between batches the number of samples taken so far is a multiple of
\* BATCH_SIZE.
C18_BatchesOfThree ==
    /\ pollState = "BatchEvaluating" =>
           /\ Len(captcha_not_detected_checks) = BATCH_SIZE
           /\ Len(samples) >= BATCH_SIZE
           /\ \A i \in 1..BATCH_SIZE :
                  captcha_not_detected_checks[i] = samples[Len(samples) - BATCH_SIZE + i]
    /\ pollState = "Sampling" =>
           /\ Len(captcha_not_detected_checks) = batchIter
           /\ batchIter < BATCH_SIZE
           /\ Len(samples) % BATCH_SIZE = batchIter
    /\ pollState \in {"Idle", "BatchStart", "BatchEvaluating", "Clear"} =>
           Len(samples) % BATCH_SIZE = 0

\* the second batch began with a marker-positive sample and still ran to its
\* third sample before being evaluated
C18_Witness ==
    /\ pollState = "BatchEvaluating"
    /\ Len(samples) = 2 * BATCH_SIZE
    /\ captcha_not_detected_checks = <<FALSE, TRUE, TRUE>>

====
